---- MODULE Spec2Model ----
(***************************************************************************)
(* Model of rbmk_journal.py: the script that builds the materials, the     *)
(* fuel-pin universe, the carrier rod, the 18-pin circular bundle inside   *)
(* the channel, exports the three XML inputs and runs the solver.          *)
(*                                                                         *)
(* Units.  Every length is an integer number of 1/2000 cm (5 micrometres), *)
(* the coarsest unit in which every length literal of the script is an     *)
(* integer (0.7625 cm = 1525).  Angles are integers in units of pi/12, in  *)
(* which every angle the script passes to cos and sin is an integer.       *)
(* cos and sin are taken from the table of cos(m*pi/12) to five decimals   *)
(* and every product is rounded to the nearest unit, so a computed length  *)
(* is within 2 units (0.001 cm) of the script's floating-point value.      *)
(***************************************************************************)
EXTENDS Integers, Sequences, FiniteSets, TLC

VARIABLES
  pc,                 \* the statement the script executes next
  materials,          \* the Material objects created so far (lines 9-30)
  materials_file,     \* the Materials collection (line 33)
  pin_cell_universe,  \* cells added to the '2.0% Fuel Pin' universe
  rod_cell_universe,  \* cells added to the 'Carrier Rod' universe
  channel_cell,       \* the 'Channel' cell object (its region is mutated)
  index, element,     \* the loop variables of lines 156 and 161
  x, y,               \* lines 162-163
  pin_boundary, pin,  \* lines 165-166
  circlat,            \* cells added to the 'Circular Lattice' universe
  settings_file,      \* the Settings object
  exported,           \* names of the XML files written, in order
  materials_xml, geometry_xml, settings_xml,  \* what each export wrote
  runs                \* number of calls of openmc.run()

vars == <<pc, materials, materials_file, pin_cell_universe, rod_cell_universe,
          channel_cell, index, element, x, y, pin_boundary, pin, circlat,
          settings_file, exported, materials_xml, geometry_xml, settings_xml,
          runs>>

-----------------------------------------------------------------------------
(* Arithmetic of the math library, in fixed point.                         *)

\* n/d rounded to the nearest integer (d > 0).
RoundDiv(n, d) ==
  IF n >= 0 THEN (2 * n + d) \div (2 * d) ELSE -((2 * (-n) + d) \div (2 * d))

\* 100000 * cos(m*pi/12) for m = 0..6.
CosTable == <<100000, 96593, 86603, 70711, 50000, 25882, 0>>

\* 100000 * cos(m*pi/12), any integer m.
cos12(m) ==
  LET mm == m % 24
  IN  IF mm <= 6 THEN CosTable[mm + 1]
      ELSE IF mm <= 12 THEN -CosTable[12 - mm + 1]
      ELSE IF mm <= 18 THEN -CosTable[mm - 12 + 1]
      ELSE CosTable[24 - mm + 1]

\* 100000 * sin(m*pi/12).
sin12(m) == cos12(m - 6)

RECURSIVE SqrtSearch(_, _, _)
SqrtSearch(n, lo, hi) ==
  IF lo >= hi THEN lo
  ELSE LET mid == (lo + hi + 1) \div 2
       IN  IF mid * mid <= n THEN SqrtSearch(n, mid, hi)
           ELSE SqrtSearch(n, lo, mid - 1)

\* sqrt(n) rounded to the nearest integer, n >= 0 (n < 2^28).
sqrt(n) ==
  LET f == SqrtSearch(n, 0, 16384)
  IN  IF n - f * f > f THEN f + 1 ELSE f

-----------------------------------------------------------------------------
(* Surfaces, half-spaces, regions and cells of the geometry library.       *)

ZPlane(z, bt) ==
  [kind |-> "ZPlane", x0 |-> 0, y0 |-> 0, r |-> 0, z0 |-> z, boundary_type |-> bt]

ZCylinder(cx, cy, rad, bt) ==
  [kind |-> "ZCylinder", x0 |-> cx, y0 |-> cy, r |-> rad, z0 |-> 0,
   boundary_type |-> bt]

\* -s and +s
Neg(s) == [surf |-> s, side |-> -1]
Pos(s) == [surf |-> s, side |-> 1]

\* h1 & h2 & ... : an intersection of half-spaces, nothing excluded yet.
Intersection(hs) == [inter |-> hs, excl |-> {}]

\* region & ~other, where other is an intersection of half-spaces.
AndNot(region, other) ==
  [inter |-> region.inter, excl |-> region.excl \cup {other.inter}]

\* The surface function at point p = <<px, py, pz>>.
Evaluate(s, p) ==
  IF s.kind = "ZCylinder"
  THEN (p[1] - s.x0) * (p[1] - s.x0) + (p[2] - s.y0) * (p[2] - s.y0) - s.r * s.r
  ELSE p[3] - s.z0

InHalfspace(h, p) ==
  IF h.side = 1 THEN Evaluate(h.surf, p) > 0 ELSE Evaluate(h.surf, p) < 0

\* p in region
Contains(region, p) ==
  /\ \A h \in region.inter : InHalfspace(h, p)
  /\ \A e \in region.excl : ~(\A h \in e : InHalfspace(h, p))

Cell(nm, fl, rg) ==
  [name |-> nm, id |-> 0, fill |-> fl, region |-> rg, translation |-> <<0, 0, 0>>]

NoSurface == ZPlane(0, "none")
NoCell == Cell("", "", Intersection({}))

-----------------------------------------------------------------------------
(* Materials, lines 7-36.  Amounts in thousandths, densities in mg/cm3.    *)

fuel ==
  [name |-> "2.0% Fuel", density |-> 10400,
   components |-> <<[what |-> "U", amount |-> 995, enrichment |-> 2000],
                    [what |-> "Er", amount |-> 5, enrichment |-> 0],
                    [what |-> "O16", amount |-> 2000, enrichment |-> 0]>>]

zircaloy ==
  [name |-> "Zircaloy", density |-> 8590,
   components |-> <<[what |-> "Zr", amount |-> 990, enrichment |-> 0],
                    [what |-> "Nb", amount |-> 10, enrichment |-> 0]>>]

wall ==
  [name |-> "Carrier Rod Material", density |-> 8590,
   components |-> <<[what |-> "Zr", amount |-> 975, enrichment |-> 0],
                    [what |-> "Nb", amount |-> 25, enrichment |-> 0]>>]

helium ==
  [name |-> "Helium", density |-> 178,
   components |-> <<[what |-> "He", amount |-> 1000, enrichment |-> 0]>>]

\* The order in which the script creates the materials.
MaterialOrder == <<fuel, zircaloy, wall, helium>>

-----------------------------------------------------------------------------
(* The fuel rod, lines 39-100.                                             *)

sleeve_min_z == ZPlane(-24000, "transmission")
sleeve_max_z == ZPlane(24000, "transmission")

fuel_inner_radius == ZCylinder(0, 0, 1100, "transmission")
fuel_outer_radius == ZCylinder(0, 0, 1132, "transmission")
clad_inner_radius == ZCylinder(0, 0, 1192, "transmission")
clad_outer_radius == ZCylinder(0, 0, 1360, "transmission")

fuel_cell_top ==
  Cell("2.0% Fuel", "fuel", Intersection({Neg(fuel_inner_radius), Pos(sleeve_max_z)}))

void_space_top ==
  Cell("empty_space", "helium",
       Intersection({Pos(fuel_inner_radius), Neg(clad_inner_radius), Pos(sleeve_max_z)}))

clad_cell_top ==
  Cell("2.0% Clad", "zircaloy",
       Intersection({Pos(clad_inner_radius), Neg(clad_outer_radius), Pos(sleeve_max_z)}))

fuel_cell_bot ==
  Cell("2.0% Fuel", "fuel", Intersection({Neg(fuel_inner_radius), Neg(sleeve_min_z)}))

void_space_bot ==
  Cell("empty_space", "helium",
       Intersection({Pos(fuel_inner_radius), Neg(clad_inner_radius), Neg(sleeve_min_z)}))

clad_cell_bot ==
  Cell("2.0% Clad", "zircaloy",
       Intersection({Pos(clad_inner_radius), Neg(clad_outer_radius), Neg(sleeve_min_z)}))

moderator == Cell("Moderator", "helium", Intersection({Pos(clad_outer_radius)}))

sleeve_cell ==
  Cell("Sleeve", "helium",
       Intersection({Neg(clad_outer_radius), Pos(sleeve_min_z), Neg(sleeve_max_z)}))

\* The order of the add_cell calls on pin_cell_universe.
PinCellOrder ==
  <<fuel_cell_top, void_space_top, clad_cell_top, fuel_cell_bot, void_space_bot,
    clad_cell_bot, moderator, sleeve_cell>>

-----------------------------------------------------------------------------
(* The carrier rod, lines 103-122.                                         *)

rod_inner_radius == ZCylinder(0, 0, 1500, "transmission")
rod_outer_radius == ZCylinder(0, 0, 1525, "transmission")

inner_rod == Cell("Inner Rod", "helium", Intersection({Neg(rod_inner_radius)}))

outer_rod ==
  Cell("Outer Rod", "wall", Intersection({Pos(rod_inner_radius), Neg(rod_outer_radius)}))

RodCellOrder == <<inner_rod, outer_rod>>

-----------------------------------------------------------------------------
(* The bundle, lines 125-184.                                              *)

element_min_z == ZPlane(-728000, "reflective")
element_max_z == ZPlane(728000, "reflective")
carrier_min_z == ZPlane(-800000, "reflective")
carrier_max_z == ZPlane(1200000, "reflective")

channel == ZCylinder(0, 0, 9000, "reflective")

r_channel == 8000
r_element == 1360
\* Mutant: the pin radius is not taken off the channel radius.
r_outer_no_margin == r_channel

r_outer == r_channel - r_element

\* pi*r_outer/6 - 2*r_element, with pi = 355/113
padding == RoundDiv(355 * r_outer, 113 * 6) - 2 * r_element

r_inner ==
  RoundDiv(r_outer * cos12(1), 100000)
    - sqrt((r_element * 2 + padding) * (r_element * 2 + padding)
             - (r_element + padding) * (r_element + padding))

num_in_rings == <<6, 12>>
\* Mutant: the two ring radii in the wrong order.
radii_swapped == <<r_outer, r_inner>>

radii == <<r_inner, r_outer>>
\* Mutant: the outer ring without its angular offset.
angles_no_offset == <<0, 0>>

\* [0, pi/12] in units of pi/12
angles == <<0, 1>>

\* The per-ring values of lines 157-160 (Python indexes from 0).
elem_num == num_in_rings[index + 1]
ring_radius == radii[index + 1]
theta_0 == angles[index + 1]
\* 2*pi/elem_num in units of pi/12
theta == 24 \div elem_num

rod_bound == ZCylinder(0, 0, 1525, "reflective")
rod_channel_min == ZPlane(-728000, "transmission")
rod_channel_max == ZPlane(728000, "transmission")

rod_above ==
  Cell("", "rod_cell_universe",
       Intersection({Neg(rod_bound), Neg(carrier_max_z), Pos(rod_channel_max)}))

rod_mid ==
  Cell("", "rod_cell_universe",
       Intersection({Neg(rod_outer_radius), Pos(rod_channel_min), Neg(rod_channel_max)}))

rod_below ==
  Cell("", "rod_cell_universe",
       Intersection({Neg(rod_bound), Neg(rod_channel_min), Pos(carrier_min_z)}))

-----------------------------------------------------------------------------
(* Settings, lines 196-210.                                                *)

batches == 100
inactive == 10
particles == 5000

\* bounds = [-3, -3, -2.4, 3, 3, 2.4]
bounds == <<-6000, -6000, -4800, 6000, 6000, 4800>>

uniform_dist ==
  [kind |-> "Box", lower_left |-> SubSeq(bounds, 1, 3),
   upper_right |-> SubSeq(bounds, 4, 6), only_fissionable |-> FALSE]

NoSpace ==
  [kind |-> "none", lower_left |-> <<0, 0, 0>>, upper_right |-> <<0, 0, 0>>,
   only_fissionable |-> FALSE]

\* What Geometry(circlat) reaches: the root universe and the fill universes.
Geometry ==
  [circlat |-> circlat, pin_cell_universe |-> pin_cell_universe,
   rod_cell_universe |-> rod_cell_universe]

-----------------------------------------------------------------------------
(* The script as a state machine: one action per statement group.          *)

Init ==
  /\ pc = "materials"
  /\ materials = <<>>
  /\ materials_file = <<>>
  /\ pin_cell_universe = <<>>
  /\ rod_cell_universe = <<>>
  /\ channel_cell = NoCell
  /\ index = -1
  /\ element = -1
  /\ x = 0
  /\ y = 0
  /\ pin_boundary = NoSurface
  /\ pin = NoCell
  /\ circlat = <<>>
  /\ settings_file = [batches |-> 0, inactive |-> 0, particles |-> 0, source |-> NoSpace]
  /\ exported = <<>>
  /\ materials_xml = <<>>
  /\ geometry_xml = [circlat |-> <<>>, pin_cell_universe |-> <<>>,
                     rod_cell_universe |-> <<>>]
  /\ settings_xml = [batches |-> 0, inactive |-> 0, particles |-> 0, source |-> NoSpace]
  /\ runs = 0

\* lines 9-30: the next Material is created and filled in.
DefineMaterial ==
  /\ pc = "materials"
  /\ materials' = Append(materials, MaterialOrder[Len(materials) + 1])
  /\ pc' = IF Len(materials') = Len(MaterialOrder) THEN "materials_file" ELSE pc
  /\ UNCHANGED <<materials_file, pin_cell_universe, rod_cell_universe, channel_cell,
                 index, element, x, y, pin_boundary, pin, circlat, settings_file,
                 exported, materials_xml, geometry_xml, settings_xml, runs>>

\* line 33
MakeMaterialsFile ==
  /\ pc = "materials_file"
  /\ materials_file' = <<fuel, zircaloy, helium, wall>>
  /\ pc' = "export_materials"
  /\ UNCHANGED <<materials, pin_cell_universe, rod_cell_universe, channel_cell,
                 index, element, x, y, pin_boundary, pin, circlat, settings_file,
                 exported, materials_xml, geometry_xml, settings_xml, runs>>

\* line 36
ExportMaterials ==
  /\ pc = "export_materials"
  /\ materials_xml' = materials_file
  /\ exported' = Append(exported, "materials.xml")
  /\ pc' = "pin_universe"
  /\ UNCHANGED <<materials, materials_file, pin_cell_universe, rod_cell_universe,
                 channel_cell, index, element, x, y, pin_boundary, pin, circlat,
                 settings_file, geometry_xml, settings_xml, runs>>

\* lines 54-100: the next cell is created and added to pin_cell_universe.
AddPinUniverseCell ==
  /\ pc = "pin_universe"
  /\ pin_cell_universe' =
       Append(pin_cell_universe, PinCellOrder[Len(pin_cell_universe) + 1])
  /\ pc' = IF Len(pin_cell_universe') = Len(PinCellOrder) THEN "rod_universe" ELSE pc
  /\ UNCHANGED <<materials, materials_file, rod_cell_universe, channel_cell,
                 index, element, x, y, pin_boundary, pin, circlat, settings_file,
                 exported, materials_xml, geometry_xml, settings_xml, runs>>

\* lines 112-122
AddRodUniverseCell ==
  /\ pc = "rod_universe"
  /\ rod_cell_universe' =
       Append(rod_cell_universe, RodCellOrder[Len(rod_cell_universe) + 1])
  /\ pc' = IF Len(rod_cell_universe') = Len(RodCellOrder) THEN "channel_cell" ELSE pc
  /\ UNCHANGED <<materials, materials_file, pin_cell_universe, channel_cell,
                 index, element, x, y, pin_boundary, pin, circlat, settings_file,
                 exported, materials_xml, geometry_xml, settings_xml, runs>>

\* lines 139-141
MakeChannelCell ==
  /\ pc = "channel_cell"
  /\ channel_cell' =
       Cell("Channel", "helium",
            Intersection({Neg(channel), Pos(rod_outer_radius), Pos(element_min_z),
                          Neg(element_max_z)}))
  /\ pc' = "for_index"
  /\ UNCHANGED <<materials, materials_file, pin_cell_universe, rod_cell_universe,
                 index, element, x, y, pin_boundary, pin, circlat, settings_file,
                 exported, materials_xml, geometry_xml, settings_xml, runs>>

\* line 156: for index in range(len(num_in_rings)).  element = -1 stands for
\* the fresh iterator of the inner range (nothing reads element before
\* line 161 assigns it).
ForIndex ==
  /\ pc = "for_index"
  /\ IF index + 1 < Len(num_in_rings)
     THEN /\ index' = index + 1
          /\ element' = -1
          /\ pc' = "for_element"
     ELSE /\ UNCHANGED <<index, element>>
          /\ pc' = "add_rod_above"
  /\ UNCHANGED <<materials, materials_file, pin_cell_universe, rod_cell_universe,
                 channel_cell, x, y, pin_boundary, pin, circlat, settings_file,
                 exported, materials_xml, geometry_xml, settings_xml, runs>>

\* Mutant: the inner loop stops one element short.
ForElement_OffByOne ==
  /\ pc = "for_element"
  /\ IF element + 1 < elem_num - 1
     THEN /\ element' = element + 1
          /\ pc' = "compute_x"
     ELSE /\ UNCHANGED element
          /\ pc' = "for_index"
  /\ UNCHANGED <<materials, materials_file, pin_cell_universe, rod_cell_universe,
                 channel_cell, index, x, y, pin_boundary, pin, circlat, settings_file,
                 exported, materials_xml, geometry_xml, settings_xml, runs>>

\* line 161: for element in range(elem_num)
ForElement ==
  /\ pc = "for_element"
  /\ IF element + 1 < elem_num
     THEN /\ element' = element + 1
          /\ pc' = "compute_x"
     ELSE /\ UNCHANGED element
          /\ pc' = "for_index"
  /\ UNCHANGED <<materials, materials_file, pin_cell_universe, rod_cell_universe,
                 channel_cell, index, x, y, pin_boundary, pin, circlat, settings_file,
                 exported, materials_xml, geometry_xml, settings_xml, runs>>

\* line 162
ComputeX ==
  /\ pc = "compute_x"
  /\ x' = RoundDiv(ring_radius * cos12(element * theta + theta_0), 100000)
  /\ pc' = "compute_y"
  /\ UNCHANGED <<materials, materials_file, pin_cell_universe, rod_cell_universe,
                 channel_cell, index, element, y, pin_boundary, pin, circlat,
                 settings_file, exported, materials_xml, geometry_xml, settings_xml,
                 runs>>

\* line 163
ComputeY ==
  /\ pc = "compute_y"
  /\ y' = RoundDiv(ring_radius * sin12(element * theta + theta_0), 100000)
  /\ pc' = "pin_boundary"
  /\ UNCHANGED <<materials, materials_file, pin_cell_universe, rod_cell_universe,
                 channel_cell, index, element, x, pin_boundary, pin, circlat,
                 settings_file, exported, materials_xml, geometry_xml, settings_xml,
                 runs>>

\* line 165
MakePinBoundary ==
  /\ pc = "pin_boundary"
  /\ pin_boundary' = ZCylinder(x, y, r_element, "transmission")
  /\ pc' = "pin"
  /\ UNCHANGED <<materials, materials_file, pin_cell_universe, rod_cell_universe,
                 channel_cell, index, element, x, y, pin, circlat, settings_file,
                 exported, materials_xml, geometry_xml, settings_xml, runs>>

\* line 166
MakePin ==
  /\ pc = "pin"
  /\ pin' = Cell("", "pin_cell_universe",
                 Intersection({Neg(pin_boundary), Pos(element_min_z),
                               Neg(element_max_z)}))
  /\ pc' = "pin_translation"
  /\ UNCHANGED <<materials, materials_file, pin_cell_universe, rod_cell_universe,
                 channel_cell, index, element, x, y, pin_boundary, circlat,
                 settings_file, exported, materials_xml, geometry_xml, settings_xml,
                 runs>>

\* line 167
SetPinTranslation ==
  /\ pc = "pin_translation"
  /\ pin' = [pin EXCEPT !.translation = <<x, y, 0>>]
  /\ pc' = "pin_id"
  /\ UNCHANGED <<materials, materials_file, pin_cell_universe, rod_cell_universe,
                 channel_cell, index, element, x, y, pin_boundary, circlat,
                 settings_file, exported, materials_xml, geometry_xml, settings_xml,
                 runs>>

\* Mutant: the id leaves out the ring.
SetPinId_NoRing ==
  /\ pc = "pin_id"
  /\ pin' = [pin EXCEPT !.id = 100 + element]
  /\ pc' = "subtract_pin"
  /\ UNCHANGED <<materials, materials_file, pin_cell_universe, rod_cell_universe,
                 channel_cell, index, element, x, y, pin_boundary, circlat,
                 settings_file, exported, materials_xml, geometry_xml, settings_xml,
                 runs>>

\* line 168
SetPinId ==
  /\ pc = "pin_id"
  /\ pin' = [pin EXCEPT !.id = (index + 1) * 100 + element]
  /\ pc' = "subtract_pin"
  /\ UNCHANGED <<materials, materials_file, pin_cell_universe, rod_cell_universe,
                 channel_cell, index, element, x, y, pin_boundary, circlat,
                 settings_file, exported, materials_xml, geometry_xml, settings_xml,
                 runs>>

\* Mutant: the pin is not subtracted from the channel.
SubtractPin_Skipped ==
  /\ pc = "subtract_pin"
  /\ pc' = "add_pin"
  /\ UNCHANGED <<materials, materials_file, pin_cell_universe, rod_cell_universe,
                 channel_cell, index, element, x, y, pin_boundary, pin, circlat,
                 settings_file, exported, materials_xml, geometry_xml, settings_xml,
                 runs>>

\* line 169: channel_cell.region &= ~pin.region
SubtractPin ==
  /\ pc = "subtract_pin"
  /\ channel_cell' = [channel_cell EXCEPT !.region = AndNot(@, pin.region)]
  /\ pc' = "add_pin"
  /\ UNCHANGED <<materials, materials_file, pin_cell_universe, rod_cell_universe,
                 index, element, x, y, pin_boundary, pin, circlat, settings_file,
                 exported, materials_xml, geometry_xml, settings_xml, runs>>

\* line 170
AddPin ==
  /\ pc = "add_pin"
  /\ circlat' = Append(circlat, pin)
  /\ pc' = "for_element"
  /\ UNCHANGED <<materials, materials_file, pin_cell_universe, rod_cell_universe,
                 channel_cell, index, element, x, y, pin_boundary, pin,
                 settings_file, exported, materials_xml, geometry_xml, settings_xml,
                 runs>>

\* line 181
AddRodAbove ==
  /\ pc = "add_rod_above"
  /\ circlat' = Append(circlat, rod_above)
  /\ pc' = "add_rod_mid"
  /\ UNCHANGED <<materials, materials_file, pin_cell_universe, rod_cell_universe,
                 channel_cell, index, element, x, y, pin_boundary, pin,
                 settings_file, exported, materials_xml, geometry_xml, settings_xml,
                 runs>>

\* line 182
AddRodMid ==
  /\ pc = "add_rod_mid"
  /\ circlat' = Append(circlat, rod_mid)
  /\ pc' = "add_rod_below"
  /\ UNCHANGED <<materials, materials_file, pin_cell_universe, rod_cell_universe,
                 channel_cell, index, element, x, y, pin_boundary, pin,
                 settings_file, exported, materials_xml, geometry_xml, settings_xml,
                 runs>>

\* line 183
AddRodBelow ==
  /\ pc = "add_rod_below"
  /\ circlat' = Append(circlat, rod_below)
  /\ pc' = "add_channel_cell"
  /\ UNCHANGED <<materials, materials_file, pin_cell_universe, rod_cell_universe,
                 channel_cell, index, element, x, y, pin_boundary, pin,
                 settings_file, exported, materials_xml, geometry_xml, settings_xml,
                 runs>>

\* Mutant: the channel cell is never added to the root universe.
AddChannelCell_Skipped ==
  /\ pc = "add_channel_cell"
  /\ pc' = "export_geometry"
  /\ UNCHANGED <<materials, materials_file, pin_cell_universe, rod_cell_universe,
                 channel_cell, index, element, x, y, pin_boundary, pin, circlat,
                 settings_file, exported, materials_xml, geometry_xml, settings_xml,
                 runs>>

\* line 184
AddChannelCell ==
  /\ pc = "add_channel_cell"
  /\ circlat' = Append(circlat, channel_cell)
  /\ pc' = "export_geometry"
  /\ UNCHANGED <<materials, materials_file, pin_cell_universe, rod_cell_universe,
                 channel_cell, index, element, x, y, pin_boundary, pin,
                 settings_file, exported, materials_xml, geometry_xml, settings_xml,
                 runs>>

\* lines 187-188: the root universe is exported with the cells it holds and
\* the universes that fill them.
ExportGeometry ==
  /\ pc = "export_geometry"
  /\ geometry_xml' = Geometry
  /\ exported' = Append(exported, "geometry.xml")
  /\ pc' = "batches"
  /\ UNCHANGED <<materials, materials_file, pin_cell_universe, rod_cell_universe,
                 channel_cell, index, element, x, y, pin_boundary, pin, circlat,
                 settings_file, materials_xml, settings_xml, runs>>

\* line 203
SetBatches ==
  /\ pc = "batches"
  /\ settings_file' = [settings_file EXCEPT !.batches = batches]
  /\ pc' = "inactive"
  /\ UNCHANGED <<materials, materials_file, pin_cell_universe, rod_cell_universe,
                 channel_cell, index, element, x, y, pin_boundary, pin, circlat,
                 exported, materials_xml, geometry_xml, settings_xml, runs>>

\* line 204
SetInactive ==
  /\ pc = "inactive"
  /\ settings_file' = [settings_file EXCEPT !.inactive = inactive]
  /\ pc' = "particles"
  /\ UNCHANGED <<materials, materials_file, pin_cell_universe, rod_cell_universe,
                 channel_cell, index, element, x, y, pin_boundary, pin, circlat,
                 exported, materials_xml, geometry_xml, settings_xml, runs>>

\* line 205
SetParticles ==
  /\ pc = "particles"
  /\ settings_file' = [settings_file EXCEPT !.particles = particles]
  /\ pc' = "source"
  /\ UNCHANGED <<materials, materials_file, pin_cell_universe, rod_cell_universe,
                 channel_cell, index, element, x, y, pin_boundary, pin, circlat,
                 exported, materials_xml, geometry_xml, settings_xml, runs>>

\* lines 208-210
SetSource ==
  /\ pc = "source"
  /\ settings_file' = [settings_file EXCEPT !.source = uniform_dist]
  /\ pc' = "export_settings"
  /\ UNCHANGED <<materials, materials_file, pin_cell_universe, rod_cell_universe,
                 channel_cell, index, element, x, y, pin_boundary, pin, circlat,
                 exported, materials_xml, geometry_xml, settings_xml, runs>>

\* line 213
ExportSettings ==
  /\ pc = "export_settings"
  /\ settings_xml' = settings_file
  /\ exported' = Append(exported, "settings.xml")
  /\ pc' = "run"
  /\ UNCHANGED <<materials, materials_file, pin_cell_universe, rod_cell_universe,
                 channel_cell, index, element, x, y, pin_boundary, pin, circlat,
                 settings_file, materials_xml, geometry_xml, runs>>

\* line 215
Run ==
  /\ pc = "run"
  /\ runs' = runs + 1
  /\ pc' = "done"
  /\ UNCHANGED <<materials, materials_file, pin_cell_universe, rod_cell_universe,
                 channel_cell, index, element, x, y, pin_boundary, pin, circlat,
                 settings_file, exported, materials_xml, geometry_xml, settings_xml>>

Next ==
  \/ DefineMaterial
  \/ MakeMaterialsFile
  \/ ExportMaterials
  \/ AddPinUniverseCell
  \/ AddRodUniverseCell
  \/ MakeChannelCell
  \/ ForIndex
  \/ ForElement
  \/ ComputeX
  \/ ComputeY
  \/ MakePinBoundary
  \/ MakePin
  \/ SetPinTranslation
  \/ SetPinId
  \/ SubtractPin
  \/ AddPin
  \/ AddRodAbove
  \/ AddRodMid
  \/ AddRodBelow
  \/ AddChannelCell
  \/ ExportGeometry
  \/ SetBatches
  \/ SetInactive
  \/ SetParticles
  \/ SetSource
  \/ ExportSettings
  \/ Run

Spec == Init /\ [][Next]_vars

\* The script runs to its end: a statement that can execute does.
FairSpec == Spec /\ WF_vars(Next)

-----------------------------------------------------------------------------
(* Reading the geometry back from the state.                               *)

\* The pin cells of the root universe, in the order they were added.
PinCells == SelectSeq(circlat, LAMBDA c : c.fill = "pin_cell_universe")

\* The bounding cylinder of a pin cell, read from its region.
BoundaryOf(c) ==
  (CHOOSE h \in c.region.inter : h.surf.kind = "ZCylinder").surf

\* Squared distance between the axes of two pin cells.
Dist2(a, b) ==
  (BoundaryOf(a).x0 - BoundaryOf(b).x0) * (BoundaryOf(a).x0 - BoundaryOf(b).x0)
    + (BoundaryOf(a).y0 - BoundaryOf(b).y0) * (BoundaryOf(a).y0 - BoundaryOf(b).y0)

\* Squared distance of a pin's axis from the channel axis.
Radius2(c) ==
  BoundaryOf(c).x0 * BoundaryOf(c).x0 + BoundaryOf(c).y0 * BoundaryOf(c).y0

\* The ring a pin was created on (0 inner, 1 outer), read from its id.
RingOf(c) == c.id \div 100 - 1

\* The direction of a pin's axis in units of pi/12: the multiple of pi/12
\* whose unit vector has the largest projection on the axis position.
AngleOf(c) ==
  CHOOSE m \in 0..23 :
    \A k \in 0..23 :
      BoundaryOf(c).x0 * cos12(m) + BoundaryOf(c).y0 * sin12(m)
        >= BoundaryOf(c).x0 * cos12(k) + BoundaryOf(c).y0 * sin12(k)

\* Angular distance, in units of pi/12, between two directions.
AngDist(a, b) ==
  LET d == (a - b) % 24 IN IF d <= 12 THEN d ELSE 24 - d

LoopDone ==
  pc \in {"add_rod_above", "add_rod_mid", "add_rod_below", "add_channel_cell",
          "export_geometry", "batches", "inactive", "particles", "source",
          "export_settings", "run", "done"}

InnerPins == {i \in 1..Len(PinCells) : RingOf(PinCells[i]) = 0}
OuterPins == {i \in 1..Len(PinCells) : RingOf(PinCells[i]) = 1}

-----------------------------------------------------------------------------
\* C1: any two distinct pins placed so far have their axes at least
\* 2*r_element apart, so no two pin footprints of radius r_element overlap;
\* this covers pairs on one ring and pairs of an inner and an outer pin.
\* (The closest pair is 3250 units apart against the 2720 required, so the
\* rounding of the centres to a unit does not decide the comparison.)
C1_NonOverlap ==
  \A i, j \in 1..Len(PinCells) :
    i # j => Dist2(PinCells[i], PinCells[j]) >= (2 * r_element) * (2 * r_element)

\* All 18 pins are placed, both rings present.
C1_Witness ==
  /\ pc = "done"
  /\ Cardinality(InnerPins) = 6
  /\ Cardinality(OuterPins) = 12

\* C9: every pin footprint lies inside the channel cylinder and outside the
\* carrier rod's outer cylinder: for both ring radii R, R + r_element is at
\* most the radius of channel and R - r_element at least that of
\* rod_outer_radius, and so it is for the axis of every pin placed.
C9_Containment ==
  /\ \A i \in 1..Len(radii) :
       /\ radii[i] + r_element <= channel.r
       /\ radii[i] - r_element >= rod_outer_radius.r
  /\ \A i \in 1..Len(PinCells) :
       /\ BoundaryOf(PinCells[i]).r = r_element
       /\ Radius2(PinCells[i])
            <= (channel.r - r_element) * (channel.r - r_element)
       /\ Radius2(PinCells[i])
            >= (rod_outer_radius.r + r_element) * (rod_outer_radius.r + r_element)

\* All pins are placed beside the carrier rod cell rod_mid in the channel.
C9_Witness ==
  /\ pc = "done"
  /\ Len(PinCells) = 18
  /\ \E i \in 1..Len(circlat) : circlat[i] = rod_mid
  /\ \E i \in 1..Len(circlat) : circlat[i] = channel_cell

\* C5: r_outer = r_channel - r_element where r_channel is the radius of the
\* channel cylinder bounding channel_cell, so that r_outer + r_element is
\* that cylinder's radius (the outer pins touch the wall).
C5_OuterRadiusFromChannel ==
  channel_cell # NoCell =>
    /\ r_outer = r_channel - r_element
    /\ \A h \in channel_cell.region.inter :
         (h.surf.kind = "ZCylinder" /\ h.side = -1) =>
           /\ r_channel = h.surf.r
           /\ r_outer + r_element = h.surf.r

\* Two pins are neighbours when they are adjacent on the outer ring, or one
\* is an inner pin and the other one of its two nearest outer pins.
Neighbours(a, b) ==
  \/ RingOf(a) = 1 /\ RingOf(b) = 1 /\ AngDist(AngleOf(a), AngleOf(b)) = 2
  \/ RingOf(a) = 0 /\ RingOf(b) = 1 /\ AngDist(AngleOf(a), AngleOf(b)) = 1

\* C7: padding is non-negative and every pair of neighbouring pins has its
\* axes at least 2*r_element + padding apart.
C7_PaddingHonoured ==
  /\ padding >= 0
  /\ \A i, j \in 1..Len(PinCells) :
       Neighbours(PinCells[i], PinCells[j]) =>
         Dist2(PinCells[i], PinCells[j])
           >= (2 * r_element + padding) * (2 * r_element + padding)

\* C3 as the claim states it: the centre of the pin of ring i (from 0) and
\* position k, with n = [6, 12], R = [r_inner, r_outer], theta = [0, pi/12].
C3_Centre(i, k) ==
  LET n == <<6, 12>>
      R == <<r_inner, r_outer>>
      th == <<0, 1>>
      a == k * (24 \div n[i + 1]) + th[i + 1]
  IN  <<RoundDiv(R[i + 1] * cos12(a), 100000), RoundDiv(R[i + 1] * sin12(a), 100000)>>

\* The (ring, position) pairs in the order of the loop: 6 inner, then 12 outer.
C3_Order == [q \in 1..18 |-> IF q <= 6 THEN <<0, q - 1>> ELSE <<1, q - 7>>]

C3_Placed ==
  /\ Len(PinCells) <= 18
  /\ \A q \in 1..Len(PinCells) :
       LET c == PinCells[q]
           e == C3_Centre(C3_Order[q][1], C3_Order[q][2])
       IN  /\ BoundaryOf(c).x0 = e[1]
           /\ BoundaryOf(c).y0 = e[2]
           /\ c.translation = <<BoundaryOf(c).x0, BoundaryOf(c).y0, 0>>
  /\ LoopDone => Len(PinCells) = 18

\* C3: the nested loop terminates, having created exactly one pin for every
\* (ring i, position k), 6 inner then 12 outer, each centred at
\* R_i*(cos, sin)(k*2*pi/n_i + theta_i), with the same (x, y) in the pin's
\* bounding cylinder and in its translation.
C3_PlacementAndTermination == []C3_Placed /\ <>LoopDone

\* The loop has ended with the last pin of the outer ring in place.
C3_Witness ==
  /\ LoopDone
  /\ Len(PinCells) = 18
  /\ PinCells[18].id = 211
  /\ PinCells[18].translation # PinCells[7].translation

\* C4: in units of pi/12 the inner pins sit at 0, 4, .., 20 and the outer
\* pins at 1, 3, .., 23; no inner pin shares a direction with an outer pin,
\* and each inner pin is exactly one unit (half the outer pitch of two units)
\* from precisely two outer pins, its nearest, which are adjacent to each
\* other on the outer ring.
C4_HalfPitchOffset ==
  LET inner == {AngleOf(PinCells[i]) : i \in InnerPins}
      outer == {AngleOf(PinCells[i]) : i \in OuterPins}
  IN  /\ inner \subseteq {4 * k : k \in 0..5}
      /\ outer \subseteq {2 * k + 1 : k \in 0..11}
      /\ inner \cap outer = {}
      /\ LoopDone =>
           /\ inner = {4 * k : k \in 0..5}
           /\ outer = {2 * k + 1 : k \in 0..11}
           /\ \A a \in inner :
                LET near == {b \in outer : AngDist(a, b) = 1}
                IN  /\ Cardinality(near) = 2
                    /\ \A b \in outer : AngDist(a, b) >= 1
                    /\ \A b1, b2 \in near : b1 # b2 => AngDist(b1, b2) = 2

\* Both rings are complete.
C4_Witness ==
  /\ LoopDone
  /\ Cardinality(InnerPins) = 6
  /\ Cardinality(OuterPins) = 12
  /\ \E i \in InnerPins, j \in OuterPins :
       AngDist(AngleOf(PinCells[i]), AngleOf(PinCells[j])) = 1

-----------------------------------------------------------------------------
(* Sample points.  Regions are compared on lattices of points; the spacing *)
(* of each lattice is a bound of the model.                                *)

\* Spacing of the lattice over the channel cross-section.
RootStep == 250
\* Spacing of the lattice over a pin's cross-section, in the pin's own frame.
LocalStep == 40
\* Spacing of the lattice over the source box.
BoxStep == 250

\* Multiples of step in lo..hi.
Lattice(lo, hi, step) == {k * step : k \in (lo \div step)..(hi \div step)}

\* Across the channel and past its wall; z below, on, between and above the
\* planes at -400, -364, 364 and 600 cm.
RootPoints ==
  {<<px, py, pz>> : px \in Lattice(-9500, 9500, RootStep),
                    py \in Lattice(-9500, 9500, RootStep),
                    pz \in {-900000, -760000, -728000, -100000, 0, 728000,
                            1000000, 1300000}}

\* Across a pin and the moderator around it; z below, on, between and above
\* the sleeve planes at -12 and 12 cm.
LocalPoints ==
  {<<px, py, pz>> : px \in Lattice(-1600, 1600, LocalStep),
                    py \in Lattice(-1600, 1600, LocalStep),
                    pz \in {-30000, -24000, 0, 24000, 30000}}

\* The source box of line 208, faces and corners included.
BoxPoints ==
  {<<px, py, pz>> : px \in Lattice(bounds[1], bounds[4], BoxStep),
                    py \in Lattice(bounds[2], bounds[5], BoxStep),
                    pz \in {bounds[3], bounds[3] \div 2, 0, bounds[6] \div 2, bounds[6]}}

\* p lies on a surface of one of the cells.
OnSurface(cells, p) ==
  \E i \in 1..Len(cells) :
    \/ \E h \in cells[i].region.inter : Evaluate(h.surf, p) = 0
    \/ \E e \in cells[i].region.excl : \E h \in e : Evaluate(h.surf, p) = 0

\* The cells of a universe that contain p.
CellsAt(cells, p) == {i \in 1..Len(cells) : Contains(cells[i].region, p)}

\* p in the frame of the universe filling cell c.
Local(c, p) == <<p[1] - c.translation[1], p[2] - c.translation[2], p[3] - c.translation[3]>>

\* p lies in fuel: in a root cell filled with the pin universe and, in that
\* cell's frame, in a cell of the pin universe filled with the fuel material.
InFuel(p) ==
  \E i \in CellsAt(circlat, p) :
    /\ circlat[i].fill = "pin_cell_universe"
    /\ \E k \in CellsAt(pin_cell_universe, Local(circlat[i], p)) :
         pin_cell_universe[k].fill = "fuel"

\* The region channel_cell was created with, before any subtraction.
ChannelBase ==
  {Neg(channel), Pos(rod_outer_radius), Pos(element_min_z), Neg(element_max_z)}

C2_State ==
  /\ \A i \in 1..Len(PinCells) :
       PinCells[i].region.inter \in channel_cell.region.excl
  /\ \A i \in 1..Len(circlat) :
       circlat[i].name = "Channel" =>
         /\ circlat[i] = channel_cell
         /\ Len(PinCells) = 18
         /\ Cardinality(channel_cell.region.excl) = 18
  /\ pc = "done" =>
       /\ Len(circlat) = 22
       /\ \A p \in RootPoints : Cardinality(CellsAt(circlat, p)) <= 1

C2_Step ==
  channel_cell # NoCell =>
    /\ channel_cell'.region.inter = channel_cell.region.inter
    /\ channel_cell.region.excl \subseteq channel_cell'.region.excl

\* C2: a pin cell is in the root universe only with its region already
\* excluded from channel_cell.region; that region is only ever intersected
\* with complements; channel_cell is added only after all 18 pin regions are
\* subtracted; and in the final geometry the 22 cells of the root universe
\* (18 pins, rod_above, rod_mid, rod_below, channel) are pairwise disjoint.
C2_NoDoubleFilling == []C2_State /\ [][C2_Step]_vars

\* The final geometry, with sample points in the channel cell, in a pin, in
\* rod_mid, and one that the channel lost to a pin.
C2_Witness ==
  /\ pc = "done"
  /\ \E i \in 1..Len(circlat) : circlat[i] = channel_cell
  /\ \E p \in RootPoints : Contains(channel_cell.region, p)
  /\ \E p \in RootPoints : Contains(rod_mid.region, p)
  /\ \E p \in RootPoints :
       /\ Contains(Intersection(ChannelBase), p)
       /\ ~Contains(channel_cell.region, p)
       /\ \E i \in 1..Len(PinCells) : Contains(PinCells[i].region, p)

\* C6: openmc.run() is called once, after materials.xml, geometry.xml and
\* settings.xml were exported in that order; geometry.xml holds the 18 pins,
\* the three carrier-rod cells and the channel cell; settings.xml holds
\* batches, inactive, particles and the source; and every exported object
\* is still as it was exported.
C6_ExportThenRun ==
  LET order == <<"materials.xml", "geometry.xml", "settings.xml">>
  IN  /\ Len(exported) <= 3
      /\ exported = SubSeq(order, 1, Len(exported))
      /\ runs <= 1
      /\ runs = 1 => exported = order
      /\ pc = "done" => runs = 1
      /\ Len(exported) >= 1 =>
           /\ materials_xml = materials_file
           /\ materials_xml = <<fuel, zircaloy, helium, wall>>
           /\ \A i \in 1..Len(materials_file) :
                \E k \in 1..Len(materials) : materials[k] = materials_file[i]
      /\ Len(exported) >= 2 =>
           /\ geometry_xml = Geometry
           /\ Len(circlat) = 22
           /\ Len(PinCells) = 18
           /\ \A c \in {rod_above, rod_mid, rod_below, channel_cell} :
                \E i \in 1..Len(circlat) : circlat[i] = c
           /\ channel_cell.name = "Channel"
      /\ Len(exported) >= 3 =>
           /\ settings_xml = settings_file
           /\ settings_xml =
                [batches |-> batches, inactive |-> inactive,
                 particles |-> particles, source |-> uniform_dist]

\* The solver has run on the three files.
C6_Witness ==
  /\ runs = 1
  /\ Len(exported) = 3
  /\ Len(geometry_xml.circlat) = 22

\* The names of the cells of the pin universe that make up the pin itself.
PinInterior == {"2.0% Fuel", "empty_space", "2.0% Clad", "Sleeve"}

\* C10: the ids of the pins are pairwise distinct at every point of the loop
\* and are exactly 100..105 and 200..211 at its end; and the eight cells of
\* the pin universe are pairwise disjoint and cover every point off their
\* surfaces, a point at local radius < r_element lying in exactly one of the
\* fuel, gap, clad and sleeve cells and never in the 'Moderator' cell.
C10_IdsAndPinUniverse ==
  /\ \A i, j \in 1..Len(PinCells) : i # j => PinCells[i].id # PinCells[j].id
  /\ LoopDone => {PinCells[i].id : i \in 1..Len(PinCells)} = (100..105) \cup (200..211)
  /\ pc = "done" =>
       /\ Len(pin_cell_universe) = 8
       /\ \A p \in LocalPoints :
            ~OnSurface(pin_cell_universe, p) =>
              /\ Cardinality(CellsAt(pin_cell_universe, p)) = 1
              /\ p[1] * p[1] + p[2] * p[2] < r_element * r_element =>
                   \A k \in CellsAt(pin_cell_universe, p) :
                     pin_cell_universe[k].name \in PinInterior

\* The script is done, and the sample points reach a cell of every name.
C10_Witness ==
  /\ pc = "done"
  /\ Len(PinCells) = 18
  /\ \A nm \in PinInterior \cup {"Moderator"} :
       \E p \in LocalPoints :
         /\ ~OnSurface(pin_cell_universe, p)
         /\ \E k \in CellsAt(pin_cell_universe, p) : pin_cell_universe[k].name = nm

\* C8: the source box overlaps a region of the final geometry filled with
\* the fuel material, and every point of the box off the surfaces lies in
\* some cell of the root universe.
C8_SourceOverFuel ==
  pc = "done" =>
    /\ settings_xml.source.kind = "Box"
    /\ \E p \in BoxPoints : InFuel(p)
    /\ \A p \in BoxPoints :
         ~OnSurface(circlat, p) => CellsAt(circlat, p) # {}

====
